---- MODULE Spec2Model ----
(***************************************************************************)
(* Model of dbt/compilation.py: the Linker (dependency graph) and the      *)
(* Compiler (reference resolution, per-model compilation, compile()).      *)
(*                                                                         *)
(* A model descriptor is a record [name, project, fqn, enabled].  The       *)
(* template of a model is read from disk when the model is compiled        *)
(* (jinja.get_template); it is modelled as the sequence of ref(...) calls  *)
(* it makes when rendered, each call being its argument tuple: <<name>>    *)
(* or <<package, name>>.  Rendering runs the calls in order and the        *)
(* rendered text is the sequence of the strings the calls return.          *)
(***************************************************************************)
EXTENDS Integers, Sequences, FiniteSets, TLC

VARIABLES
    pc,                \* position of the caller / of compile()
    err,               \* the error compile() raised, "none" if none
    targetExists,      \* os.path.exists(project['target-path'])
    modulesExists,     \* os.path.exists(project['modules-path'])
    transform,         \* the create_template adapter the Compiler was built with
    models,            \* compile(): the candidate pool (list)
    analyses,          \* compile(): the analyses (list)
    i,                 \* number of loop iterations done in the current phase
    model_linker,      \* compile(): model_linker.graph
    analysis_linker,   \* compile(): analysis_linker.graph
    compiled_models,   \* len(compiled_models)
    compiled_analyses, \* len(compiled_analyses)
    files,             \* build paths written under target-path
    graph_file,        \* sequence of the graphs written to graph-<label>.yml
    ref_log,           \* the ref calls made so far: [source, args, result, ret]
    returned,          \* the value compile() returned, <<>> before it returns
    input_log,         \* what each compile_model call read: [fqn, template, stmt]
    linker_calls,      \* the add_node and dependency calls made on a Linker
    dependency_list    \* what as_dependency_list returned: [status, order]

vars == <<pc, err, targetExists, modulesExists, transform, models, analyses, i,
          model_linker, analysis_linker, compiled_models, compiled_analyses,
          files, graph_file, ref_log, returned, input_log, linker_calls,
          dependency_list>>

----------------------------------------------------------------------------
(* Bounds and input domains *)

MaxModels == 2          \* longest candidate pool
MaxAnalyses == 1        \* longest list of analyses
MaxCalls == 4           \* most distinct calls made on a Linker used directly

RootProject == "root"   \* self.project['name']
DepProject == "pkg"     \* name of the project found under modules-path
Projects == {RootProject, DepProject}
Names == {"a", "b"}
AnalysisNames == {"a"}
Transforms == {"base", "test"}
IOOutcomes == {"ok", "open_fails"}

SeqsUpTo(S, n) == UNION {[1..k -> S] : k \in 0..n}

\* the argument tuples a template may pass to ref
RefArgs == {<<n>> : n \in Names} \cup {<<p, n>> : p \in Projects, n \in Names}

\* the templates: no ref, one ref, or two unqualified refs
Templates ==
    {<<>>} \cup {<<r>> : r \in RefArgs}
           \cup {<<<<"a">>, <<"b">>>>, <<<<"b">>, <<"a">>>>}

Descriptor(p, dir, n, e) ==
    [name |-> n, project |-> p, fqn |-> <<p>> \o dir \o <<n>>, enabled |-> e]

\* Source(project).get_models(paths)
ModelsOf(p) == {Descriptor(p, <<>>, n, e) : n \in Names, e \in BOOLEAN}

\* Source(project).get_analyses(paths)
AnalysesOf(p) ==
    {Descriptor(p, <<"analysis">>, n, e) : n \in AnalysisNames, e \in BOOLEAN}

\* the templates of analyses: no ref, or one ref, unqualified or qualified
AnalysisTemplates ==
    {<<>>, <<<<"a">>>>, <<<<"b">>>>, <<<<"pkg", "a">>>>, <<<<"root", "b">>>>}

TemplatesOf(model) ==
    IF Len(model.fqn) = 2 THEN Templates ELSE AnalysisTemplates

\* what compile_model reads from its surroundings for one model: the template
\* on disk, whether model.compile returns a statement, what the file system
\* does.  Inputs the code does not read for this model are left out.
Inputs(model) ==
    IF ~model.enabled THEN {<<<<>>, FALSE, "ok">>}
    ELSE {<<t, FALSE, "ok">> : t \in TemplatesOf(model)}
           \cup {<<t, TRUE, io>> : t \in TemplatesOf(model), io \in IOOutcomes}

EmptyGraph == [nodes |-> {}, edges |-> {}]

\* the nodes a caller hands to a Linker it uses directly
LinkerNodes == {<<"root", "a">>, <<"root", "b">>, <<"pkg", "a">>}

\* the orders in which a set can be iterated
Orderings(S) ==
    {f \in [1..Cardinality(S) -> S] : \A j, k \in DOMAIN f : f[j] = f[k] => j = k}

NotListed == [status |-> "none", order |-> <<>>]

----------------------------------------------------------------------------
(* Linker *)

add_node(graph, node) == [graph EXCEPT !.nodes = @ \cup {node}]

add_edge(graph, u, v) ==
    [nodes |-> graph.nodes \cup {u, v}, edges |-> graph.edges \cup {<<u, v>>}]

\* dependency with the edge pointing from the dependent to its dependency
dependency_reversed(graph, node1, node2) ==
    add_edge(add_node(add_node(graph, node1), node2), node1, node2)

\* "indicate that node1 depends on node2"
dependency(graph, node1, node2) ==
    add_edge(add_node(add_node(graph, node1), node2), node2, node1)

Reverse(seq) == [k \in 1..Len(seq) |-> seq[Len(seq) + 1 - k]]

\* G[w]: the successors of w, in the order adj iterates them
successors(graph, adj, w) ==
    SelectSeq(adj, LAMBDA n : <<w, n>> \in graph.edges)

\* nx.topological_sort, the while loop over the fringe of one start node;
\* st = [fringe, seen, explored, order, cycle]
RECURSIVE explore(_, _, _)
explore(graph, adj, st) ==
    IF st.cycle \/ st.fringe = <<>> THEN st
    ELSE LET w == st.fringe[Len(st.fringe)]
             popped == SubSeq(st.fringe, 1, Len(st.fringe) - 1)
             seen == st.seen \cup {w}
             new_nodes == SelectSeq(successors(graph, adj, w),
                                    LAMBDA n : n \notin st.explored)
         IN  IF w \in st.explored
             THEN explore(graph, adj, [st EXCEPT !.fringe = popped])
             ELSE IF \E k \in 1..Len(new_nodes) : new_nodes[k] \in seen
             THEN [st EXCEPT !.cycle = TRUE, !.seen = seen]
             ELSE IF new_nodes # <<>>
             THEN explore(graph, adj, [st EXCEPT !.fringe = @ \o new_nodes,
                                                 !.seen = seen])
             ELSE explore(graph, adj,
                          [st EXCEPT !.fringe = popped, !.seen = seen,
                                     !.explored = @ \cup {w},
                                     !.order = Append(@, w)])

\* nx.topological_sort, the loop over the start nodes nbunch
RECURSIVE explore_from(_, _, _, _, _)
explore_from(graph, nbunch, adj, k, st) ==
    IF st.cycle \/ k > Len(nbunch) THEN st
    ELSE IF nbunch[k] \in st.explored
    THEN explore_from(graph, nbunch, adj, k + 1, st)
    ELSE explore_from(graph, nbunch, adj, k + 1,
                      explore(graph, adj, [st EXCEPT !.fringe = <<nbunch[k]>>]))

\* nx.topological_sort(graph): nbunch is the order in which the graph
\* iterates its nodes, adj the order in which it iterates successors
topological_sort(graph, nbunch, adj) ==
    LET st == explore_from(graph, nbunch, adj, 1,
                           [fringe |-> <<>>, seen |-> {}, explored |-> {},
                            order |-> <<>>, cycle |-> FALSE])
    IN  IF st.cycle THEN [status |-> "cycle", order |-> <<>>]
        ELSE [status |-> "ok", order |-> Reverse(st.order)]

\* as_dependency_list returning the order without reversing it
as_dependency_list_unreversed(graph, nbunch, adj) ==
    LET r == topological_sort(graph, nbunch, adj)
    IN  [r EXCEPT !.order = Reverse(@)]

\* Linker.as_dependency_list(limit_to=None)
as_dependency_list(graph, nbunch, adj) == topological_sort(graph, nbunch, adj)

----------------------------------------------------------------------------
(* Compiler *)

\* create_template.model_name: the adapter's naming transform
model_name(tr, name) == IF tr = "base" THEN name ELSE "test_" \o name

\* the schema of the rendering context, ctx['env']['schema']
schema == "dev"

\* model.build_path(create_template): the output path, one per output FQN
build_path(tr, model) ==
    SubSeq(model.fqn, 1, Len(model.fqn) - 1) \o <<model_name(tr, model.name)>>

RECURSIVE validate_from(_, _, _)
validate_from(ms, k, model_names) ==
    IF k > Len(ms) THEN "none"
    ELSE IF ms[k].name \in model_names THEN "DuplicateModel"
    ELSE validate_from(ms, k + 1, model_names \cup {ms[k].name})

\* validate_models_unique comparing FQNs, so that packages do not collide
validate_models_unique_by_fqn(ms) ==
    IF \E j \in 1..Len(ms), k \in 1..Len(ms) : j # k /\ ms[j].fqn = ms[k].fqn
    THEN "DuplicateModel" ELSE "none"

\* a validation that accepts every pool
validate_models_unique_accepting_all(ms) == "none"

\* "none" when the names are unique, else the error raised
validate_models_unique(ms) == validate_from(ms, 1, {})

\* find_model_by_name with the package filter dropped
find_model_by_name_any_package(project_models, name, package_namespace) ==
    LET Match(model) == model.name = name
        found == SelectSeq(project_models, Match)
    IN  [status |-> IF Len(found) = 0 THEN "NotFound"
                    ELSE IF Len(found) = 1 THEN "Found"
                    ELSE "Ambiguous",
         name |-> name,
         package |-> IF package_namespace = <<>> THEN "ANY"
                     ELSE package_namespace[1],
         found |-> found]

\* find_model_by_name searching the enabled models only
find_model_by_name_enabled_only(project_models, name, package_namespace) ==
    LET Match(model) ==
            /\ model.enabled
            /\ model.name = name
            /\ \/ package_namespace = <<>>
               \/ package_namespace[1] = model.project
        found == SelectSeq(project_models, Match)
    IN  [status |-> IF Len(found) = 0 THEN "NotFound"
                    ELSE IF Len(found) = 1 THEN "Found"
                    ELSE "Ambiguous",
         name |-> name,
         package |-> IF package_namespace = <<>> THEN "ANY"
                     ELSE package_namespace[1],
         found |-> found]

\* package_namespace is <<>> for None and <<p>> for the package p
find_model_by_name(project_models, name, package_namespace) ==
    LET Match(model) ==
            /\ model.name = name
            /\ \/ package_namespace = <<>>
               \/ package_namespace[1] = model.project
        found == SelectSeq(project_models, Match)
        nice_package_name ==
            IF package_namespace = <<>> THEN "ANY" ELSE package_namespace[1]
    IN  [status |-> IF Len(found) = 0 THEN "NotFound"
                    ELSE IF Len(found) = 1 THEN "Found"
                    ELSE "Ambiguous",
         name |-> name,
         package |-> nice_package_name,
         found |-> found]

\* the string do_ref returns: '"{}"."{}"'.format(schema, other_model_name)
format_ref(sch, other_model_name) ==
    "\"" \o sch \o "\".\"" \o other_model_name \o "\""

\* one call of the closure __ref returns; st = [graph, log, err, text]
do_ref(st, tr, model, all_models, args) ==
    LET other_model_name == args[Len(args)]
        res == IF Len(args) = 1
               THEN find_model_by_name(all_models, other_model_name, <<>>)
               ELSE find_model_by_name(all_models, other_model_name, <<args[1]>>)
        rendered_name == model_name(tr, other_model_name)
        source_model == model.fqn
    IN  IF res.status # "Found"
        THEN [st EXCEPT !.err = res.status,
                        !.log = @ \cup {[source |-> source_model, args |-> args,
                                         result |-> res, ret |-> ""]}]
        ELSE LET other_model == res.found[1]
                 other_model_fqn ==
                     SubSeq(other_model.fqn, 1, Len(other_model.fqn) - 1)
                       \o <<rendered_name>>
                 ret == format_ref(schema, rendered_name)
             IN  [graph |-> dependency(st.graph, source_model, other_model_fqn),
                  log |-> st.log \cup {[source |-> source_model, args |-> args,
                                        result |-> res, ret |-> ret]},
                  err |-> "none",
                  text |-> Append(st.text, ret)]

\* template.render(context): the ref calls of the template, in order, until
\* one raises
RECURSIVE render(_, _, _, _, _, _)
render(st, tr, model, all_models, template, k) ==
    IF k > Len(template) \/ st.err # "none" THEN st
    ELSE render(do_ref(st, tr, model, all_models, template[k]),
                tr, model, all_models, template, k + 1)

\* __ref without line 113: the node appears only with its first edge
ref_init_no_node(graph, log, model) ==
    [graph |-> graph, log |-> log, err |-> "none", text |-> <<>>]

\* __ref working on a new Linker for each model
ref_init_fresh_graph(graph, log, model) ==
    [graph |-> add_node(EmptyGraph, model.fqn), log |-> log, err |-> "none",
     text |-> <<>>]

\* __ref: registers the source model's node, then hands out do_ref
ref_init(graph, log, model) ==
    [graph |-> add_node(graph, model.fqn), log |-> log, err |-> "none",
     text |-> <<>>]

\* __write: makedirs of the parent directory, then open and write
write(fs, tExists, path, io) ==
    IF io = "open_fails"
    THEN [files |-> fs, targetExists |-> TRUE, err |-> "IOError"]
    ELSE [files |-> fs \cup {path}, targetExists |-> TRUE, err |-> "none"]

\* render_and_write handing back the graph it was given when model.compile
\* declines
render_and_write_dropping_declined(graph, log, fs, tExists, tr, model, all_models, template, has_stmt, io) ==
    LET st == render(ref_init(graph, log, model), tr, model, all_models,
                     template, 1)
    IN  IF st.err # "none"
        THEN [graph |-> st.graph, log |-> st.log, files |-> fs,
              targetExists |-> tExists, result |-> "raise", err |-> st.err]
        ELSE IF ~has_stmt
        THEN [graph |-> graph, log |-> st.log, files |-> fs,
              targetExists |-> tExists, result |-> "False", err |-> "none"]
        ELSE LET w == write(fs, tExists, build_path(tr, model), io)
             IN  [graph |-> st.graph, log |-> st.log, files |-> w.files,
                  targetExists |-> w.targetExists,
                  result |-> IF w.err = "none" THEN "True" ELSE "raise",
                  err |-> w.err]

\* compile_model from line 141 on: render, build the statement, write it.
\* template is the template found at model.rel_filepath, has_stmt is what
\* model.compile answers and io what the file system does.  result is
\* "True", "False", or "raise" with err set.
render_and_write(graph, log, fs, tExists, tr, model, all_models, template, has_stmt, io) ==
    LET st == render(ref_init(graph, log, model), tr, model, all_models,
                     template, 1)
    IN  IF st.err # "none"
        THEN [graph |-> st.graph, log |-> st.log, files |-> fs,
              targetExists |-> tExists, result |-> "raise", err |-> st.err]
        ELSE IF ~has_stmt
        THEN [graph |-> st.graph, log |-> st.log, files |-> fs,
              targetExists |-> tExists, result |-> "False", err |-> "none"]
        ELSE LET w == write(fs, tExists, build_path(tr, model), io)
             IN  [graph |-> st.graph, log |-> st.log, files |-> w.files,
                  targetExists |-> w.targetExists,
                  result |-> IF w.err = "none" THEN "True" ELSE "raise",
                  err |-> w.err]

\* compile_model without the enabled check of lines 138-139
compile_model_ignoring_enabled(graph, log, fs, tExists, tr, model, all_models, template, has_stmt, io) ==
    render_and_write(graph, log, fs, tExists, tr, model, all_models, template,
                     has_stmt, io)

\* compile_model registering the node before the enabled check
compile_model_registering_disabled(graph, log, fs, tExists, tr, model, all_models, template, has_stmt, io) ==
    IF ~model.enabled
    THEN [graph |-> add_node(graph, model.fqn), log |-> log, files |-> fs,
          targetExists |-> tExists, result |-> "None", err |-> "none"]
    ELSE render_and_write(graph, log, fs, tExists, tr, model, all_models,
                          template, has_stmt, io)

\* compile_model(linker, model, models); result "None" for a disabled model
compile_model(graph, log, fs, tExists, tr, model, all_models, template, has_stmt, io) ==
    IF ~model.enabled
    THEN [graph |-> graph, log |-> log, files |-> fs, targetExists |-> tExists,
          result |-> "None", err |-> "none"]
    ELSE render_and_write(graph, log, fs, tExists, tr, model, all_models,
                          template, has_stmt, io)

\* compile(), lines 168-173 and 180-183, as a function of the list ms it
\* loops over and of the pool all_models: compile_model for ms[k], ms[k+1],
\* ... against the graph so far, reads[k] being what the call for ms[k]
\* finds at the model's template path and gets from model.compile;
\* acc = [graph, log, files, compiled, err]
RECURSIVE compile_loop(_, _, _, _, _, _)
compile_loop(tr, ms, all_models, reads, k, acc) ==
    IF k > Len(ms) \/ acc.err # "none" THEN acc
    ELSE LET r == compile_model(acc.graph, acc.log, acc.files, TRUE, tr, ms[k],
                                all_models, reads[k].template,
                                reads[k].stmt = "yes", "ok")
         IN  compile_loop(tr, ms, all_models, reads, k + 1,
                          [graph |-> r.graph, log |-> r.log, files |-> r.files,
                           compiled |-> IF r.result = "True"
                                        THEN acc.compiled + 1
                                        ELSE acc.compiled,
                           err |-> r.err])

\* what the compile_model call that answered r read of its inputs in: the
\* config, the template once the model is enabled, and the answer of
\* model.compile once rendering has succeeded
read_by(model, in, r) ==
    [fqn |-> model.fqn,
     template |-> IF model.enabled THEN in[1] ELSE <<>>,
     stmt |-> IF ~model.enabled \/ r.err \in {"NotFound", "Ambiguous"}
              THEN "unasked"
              ELSE IF in[2] THEN "yes" ELSE "no"]

----------------------------------------------------------------------------
(* State machine *)

Init ==
    /\ pc = "idle"
    /\ err = "none"
    /\ targetExists \in BOOLEAN
    /\ modulesExists \in BOOLEAN
    /\ transform \in Transforms
    /\ models = <<>>
    /\ analyses = <<>>
    /\ i = 0
    /\ model_linker = EmptyGraph
    /\ analysis_linker = EmptyGraph
    /\ compiled_models = 0
    /\ compiled_analyses = 0
    /\ files = {}
    /\ graph_file = <<>>
    /\ ref_log = {}
    /\ returned = <<>>
    /\ input_log = <<>>
    /\ linker_calls = {}
    /\ dependency_list = NotListed

\* Compiler.initialize, called by the owner of the Compiler before compile()
initialize ==
    /\ pc = "idle"
    /\ ~(targetExists /\ modulesExists)
    /\ targetExists' = TRUE
    /\ modulesExists' = TRUE
    /\ UNCHANGED <<pc, err, transform, models, analyses, i, model_linker,
                   analysis_linker, compiled_models, compiled_analyses, files,
                   graph_file, ref_log, returned, input_log,
                   linker_calls, dependency_list>>

\* compile(), lines 161-164: the primary project's models, then those of the
\* projects listed under modules-path (os.listdir raises if it is absent)
discover_models ==
    /\ pc = "idle"
    /\ IF ~modulesExists
       THEN /\ pc' = "error"
            /\ err' = "OSError"
            /\ UNCHANGED models
       ELSE /\ \E own \in SeqsUpTo(ModelsOf(RootProject), MaxModels),
                  deps \in SeqsUpTo(ModelsOf(DepProject), MaxModels) :
                 /\ Len(own) + Len(deps) <= MaxModels
                 /\ models' = own \o deps
            /\ pc' = "validate"
            /\ UNCHANGED err
    /\ UNCHANGED <<targetExists, modulesExists, transform, analyses, i,
                   model_linker, analysis_linker, compiled_models,
                   compiled_analyses, files, graph_file, ref_log, returned, input_log,
                   linker_calls, dependency_list>>

\* compile(), line 166
validate ==
    /\ pc = "validate"
    /\ LET e == validate_models_unique(models)
       IN  /\ err' = e
           /\ pc' = IF e = "none" THEN "models" ELSE "error"
    /\ UNCHANGED <<targetExists, modulesExists, transform, models, analyses, i,
                   model_linker, analysis_linker, compiled_models,
                   compiled_analyses, files, graph_file, ref_log, returned, input_log,
                   linker_calls, dependency_list>>

\* the loop over the models appending every result that is not None
compile_next_model_counting_declined ==
    /\ pc = "models"
    /\ i < Len(models)
    /\ \E in \in Inputs(models[i + 1]) :
         LET r == compile_model(model_linker, ref_log, files, targetExists,
                                transform, models[i + 1], models, in[1],
                                in[2], in[3])
         IN  /\ model_linker' = r.graph
             /\ ref_log' = r.log
             /\ files' = r.files
             /\ targetExists' = r.targetExists
             /\ err' = r.err
             /\ input_log' = Append(input_log, read_by(models[i + 1], in, r))
             /\ pc' = IF r.result = "raise" THEN "error" ELSE "models"
             /\ compiled_models' =
                   IF r.result \in {"True", "False"} THEN compiled_models + 1
                   ELSE compiled_models
    /\ i' = i + 1
    /\ UNCHANGED <<modulesExists, transform, models, analyses, analysis_linker,
                   compiled_analyses, graph_file, returned, linker_calls,
                   dependency_list>>

\* compile(), lines 170-173: one iteration of the loop over the models
compile_next_model ==
    /\ pc = "models"
    /\ i < Len(models)
    /\ \E in \in Inputs(models[i + 1]) :
         LET r == compile_model(model_linker, ref_log, files, targetExists,
                                transform, models[i + 1], models, in[1],
                                in[2], in[3])
         IN  /\ model_linker' = r.graph
             /\ ref_log' = r.log
             /\ files' = r.files
             /\ targetExists' = r.targetExists
             /\ err' = r.err
             /\ input_log' = Append(input_log, read_by(models[i + 1], in, r))
             /\ pc' = IF r.result = "raise" THEN "error" ELSE "models"
             /\ compiled_models' =
                   IF r.result = "True" THEN compiled_models + 1
                   ELSE compiled_models
    /\ i' = i + 1
    /\ UNCHANGED <<modulesExists, transform, models, analyses, analysis_linker,
                   compiled_analyses, graph_file, returned, linker_calls,
                   dependency_list>>

\* __write_graph_file called from inside the loop over the models
write_graph_file_in_loop ==
    /\ pc = "models"
    /\ i <= Len(models)
    /\ targetExists
    /\ graph_file' = Append(graph_file, model_linker)
    /\ pc' = IF i = Len(models) THEN "discover_analyses" ELSE "models"
    /\ UNCHANGED <<err, targetExists, modulesExists, transform, models,
                   analyses, i, model_linker, analysis_linker, compiled_models,
                   compiled_analyses, files, ref_log, returned, input_log,
                   linker_calls, dependency_list>>

\* compile(), line 175: __write_graph_file(model_linker); nx.write_yaml opens
\* a file directly under target-path
write_graph_file ==
    /\ pc = "models"
    /\ i = Len(models)
    /\ \E io \in IOOutcomes :
         IF io = "open_fails" \/ ~targetExists
         THEN /\ pc' = "error"
              /\ err' = "IOError"
              /\ UNCHANGED graph_file
         ELSE /\ graph_file' = Append(graph_file, model_linker)
              /\ pc' = "discover_analyses"
              /\ UNCHANGED err
    /\ UNCHANGED <<targetExists, modulesExists, transform, models, analyses, i,
                   model_linker, analysis_linker, compiled_models,
                   compiled_analyses, files, ref_log, returned, input_log,
                   linker_calls, dependency_list>>

\* compile(), lines 177-179
discover_analyses ==
    /\ pc = "discover_analyses"
    /\ analyses' \in SeqsUpTo(AnalysesOf(RootProject), MaxAnalyses)
    /\ analysis_linker' = EmptyGraph
    /\ i' = 0
    /\ pc' = "analyses"
    /\ UNCHANGED <<err, targetExists, modulesExists, transform, models,
                   model_linker, compiled_models, compiled_analyses, files,
                   graph_file, ref_log, returned, input_log,
                   linker_calls, dependency_list>>

\* the loop over the analyses resolving refs among models and analyses
compile_next_analysis_searching_analyses ==
    /\ pc = "analyses"
    /\ i < Len(analyses)
    /\ \E in \in Inputs(analyses[i + 1]) :
         LET r == compile_model(analysis_linker, ref_log, files, targetExists,
                                transform, analyses[i + 1], models \o analyses,
                                in[1], in[2], in[3])
         IN  /\ analysis_linker' = r.graph
             /\ ref_log' = r.log
             /\ files' = r.files
             /\ targetExists' = r.targetExists
             /\ err' = r.err
             /\ input_log' = Append(input_log, read_by(analyses[i + 1], in, r))
             /\ pc' = IF r.result = "raise" THEN "error" ELSE "analyses"
             /\ compiled_analyses' =
                   IF r.result = "True" THEN compiled_analyses + 1
                   ELSE compiled_analyses
    /\ i' = i + 1
    /\ UNCHANGED <<modulesExists, transform, models, analyses, model_linker,
                   compiled_models, graph_file, returned, linker_calls,
                   dependency_list>>

\* the loop over the analyses handing model_linker to compile_model
compile_next_analysis_on_model_linker ==
    /\ pc = "analyses"
    /\ i < Len(analyses)
    /\ \E in \in Inputs(analyses[i + 1]) :
         LET r == compile_model(model_linker, ref_log, files, targetExists,
                                transform, analyses[i + 1], models, in[1],
                                in[2], in[3])
         IN  /\ model_linker' = r.graph
             /\ ref_log' = r.log
             /\ files' = r.files
             /\ targetExists' = r.targetExists
             /\ err' = r.err
             /\ input_log' = Append(input_log, read_by(analyses[i + 1], in, r))
             /\ pc' = IF r.result = "raise" THEN "error" ELSE "analyses"
             /\ compiled_analyses' =
                   IF r.result = "True" THEN compiled_analyses + 1
                   ELSE compiled_analyses
    /\ i' = i + 1
    /\ UNCHANGED <<modulesExists, transform, models, analyses, analysis_linker,
                   compiled_models, graph_file, returned, linker_calls,
                   dependency_list>>

\* compile(), lines 180-183: one iteration of the loop over the analyses
compile_next_analysis ==
    /\ pc = "analyses"
    /\ i < Len(analyses)
    /\ \E in \in Inputs(analyses[i + 1]) :
         LET r == compile_model(analysis_linker, ref_log, files, targetExists,
                                transform, analyses[i + 1], models, in[1],
                                in[2], in[3])
         IN  /\ analysis_linker' = r.graph
             /\ ref_log' = r.log
             /\ files' = r.files
             /\ targetExists' = r.targetExists
             /\ err' = r.err
             /\ input_log' = Append(input_log, read_by(analyses[i + 1], in, r))
             /\ pc' = IF r.result = "raise" THEN "error" ELSE "analyses"
             /\ compiled_analyses' =
                   IF r.result = "True" THEN compiled_analyses + 1
                   ELSE compiled_analyses
    /\ i' = i + 1
    /\ UNCHANGED <<modulesExists, transform, models, analyses, model_linker,
                   compiled_models, graph_file, returned, linker_calls,
                   dependency_list>>

\* compile(), line 185
return ==
    /\ pc = "analyses"
    /\ i = Len(analyses)
    /\ returned' = <<compiled_models, compiled_analyses>>
    /\ pc' = "done"
    /\ UNCHANGED <<err, targetExists, modulesExists, transform, models,
                   analyses, i, model_linker, analysis_linker, compiled_models,
                   compiled_analyses, files, graph_file, ref_log, input_log,
                   linker_calls, dependency_list>>

\* a direct call of find_model_by_name on a pool that was not validated
find_call ==
    /\ pc = "find"
    /\ \E name \in Names, package_namespace \in {<<>>} \cup {<<p>> : p \in Projects} :
         ref_log' = ref_log \cup
            {[source |-> <<>>, args |-> package_namespace \o <<name>>,
              result |-> find_model_by_name(models, name, package_namespace),
              ret |-> ""]}
    /\ UNCHANGED <<pc, err, targetExists, modulesExists, transform, models,
                   analyses, i, model_linker, analysis_linker, compiled_models,
                   compiled_analyses, files, graph_file, returned, input_log,
                   linker_calls, dependency_list>>

\* a caller's Linker.add_node(node)
linker_add_node ==
    /\ pc = "linker"
    /\ \E node \in LinkerNodes :
         LET call == [op |-> "add_node", node1 |-> node, node2 |-> <<>>]
         IN  /\ Cardinality(linker_calls \cup {call}) <= MaxCalls
             /\ linker_calls' = linker_calls \cup {call}
             /\ model_linker' = add_node(model_linker, node)
    /\ UNCHANGED <<pc, err, targetExists, modulesExists, transform, models,
                   analyses, i, analysis_linker, compiled_models,
                   compiled_analyses, files, graph_file, ref_log, returned,
                   input_log, dependency_list>>

\* a caller's Linker.dependency(node1, node2)
linker_dependency ==
    /\ pc = "linker"
    /\ \E node1 \in LinkerNodes, node2 \in LinkerNodes :
         LET call == [op |-> "dependency", node1 |-> node1, node2 |-> node2]
         IN  /\ Cardinality(linker_calls \cup {call}) <= MaxCalls
             /\ linker_calls' = linker_calls \cup {call}
             /\ model_linker' = dependency(model_linker, node1, node2)
    /\ UNCHANGED <<pc, err, targetExists, modulesExists, transform, models,
                   analyses, i, analysis_linker, compiled_models,
                   compiled_analyses, files, graph_file, ref_log, returned,
                   input_log, dependency_list>>

\* a caller's Linker.as_dependency_list()
linker_as_dependency_list ==
    /\ pc = "linker"
    /\ \E nbunch \in Orderings(model_linker.nodes),
          adj \in Orderings(model_linker.nodes) :
         dependency_list' = as_dependency_list(model_linker, nbunch, adj)
    /\ pc' = "listed"
    /\ UNCHANGED <<err, targetExists, modulesExists, transform, models,
                   analyses, i, model_linker, analysis_linker, compiled_models,
                   compiled_analyses, files, graph_file, ref_log, returned,
                   input_log, linker_calls>>

Next ==
    \/ initialize
    \/ discover_models
    \/ validate
    \/ compile_next_model
    \/ write_graph_file
    \/ discover_analyses
    \/ compile_next_analysis
    \/ return

Spec == Init /\ [][Next]_vars

\* find_model_by_name alone, on every pool of at most MaxModels models
InitFind ==
    /\ pc = "find"
    /\ err = "none"
    /\ targetExists = TRUE
    /\ modulesExists = TRUE
    /\ transform = "base"
    /\ models \in SeqsUpTo(ModelsOf(RootProject) \cup ModelsOf(DepProject),
                            MaxModels)
    /\ analyses = <<>>
    /\ i = 0
    /\ model_linker = EmptyGraph
    /\ analysis_linker = EmptyGraph
    /\ compiled_models = 0
    /\ compiled_analyses = 0
    /\ files = {}
    /\ graph_file = <<>>
    /\ ref_log = {}
    /\ returned = <<>>
    /\ input_log = <<>>
    /\ linker_calls = {}
    /\ dependency_list = NotListed

NextFind == find_call

SpecFind == InitFind /\ [][NextFind]_vars

\* a Linker used directly: add_node and dependency calls, then the ordering
InitLinker ==
    /\ pc = "linker"
    /\ err = "none"
    /\ targetExists = TRUE
    /\ modulesExists = TRUE
    /\ transform = "base"
    /\ models = <<>>
    /\ analyses = <<>>
    /\ i = 0
    /\ model_linker = EmptyGraph
    /\ analysis_linker = EmptyGraph
    /\ compiled_models = 0
    /\ compiled_analyses = 0
    /\ files = {}
    /\ graph_file = <<>>
    /\ ref_log = {}
    /\ returned = <<>>
    /\ input_log = <<>>
    /\ linker_calls = {}
    /\ dependency_list = NotListed

NextLinker ==
    \/ linker_add_node
    \/ linker_dependency
    \/ linker_as_dependency_list

SpecLinker == InitLinker /\ [][NextLinker]_vars

----------------------------------------------------------------------------
(* Vocabulary of the properties *)

\* two models of the pool share a terminal name
HasDuplicate(ms) ==
    \E j \in 1..Len(ms), k \in 1..Len(ms) : j # k /\ ms[j].name = ms[k].name

\* the positions of the pool a lookup of (name, package) is about
Candidates(ms, args) ==
    {k \in 1..Len(ms) :
        /\ ms[k].name = args[Len(args)]
        /\ Len(args) = 2 => ms[k].project = args[1]}

\* the rendered terminal name under each adapter, written out
RenderedName(tr, name) ==
    CASE tr = "base" /\ name = "a" -> "a"
      [] tr = "base" /\ name = "b" -> "b"
      [] tr = "test" /\ name = "a" -> "test_a"
      [] tr = "test" /\ name = "b" -> "test_b"

\* a model's FQN with its last segment replaced by the rendered name
OutputFqn(tr, m) == [m.fqn EXCEPT ![Len(m.fqn)] = RenderedName(tr, m.name)]

\* the ref calls made while rendering, and those that resolved
RenderCalls == {e \in ref_log : e.source # <<>>}
Resolved == {e \in RenderCalls : e.result.status = "Found"}

IsAnalysisFqn(fqn) == fqn \in {x.fqn : x \in AnalysesOf(RootProject)}
ModelCalls == {e \in RenderCalls : ~IsAnalysisFqn(e.source)}

\* the graph the ref calls of a source are made against
GraphOf(fqn) == IF IsAnalysisFqn(fqn) THEN analysis_linker ELSE model_linker

----------------------------------------------------------------------------
(* C1: a pool with two models of the same terminal name makes compile()    *)
(* fail with the duplicate-model error before compile_model is called for  *)
(* any model: no output file, no graph node, no graph file.                *)
C1_DuplicateFailsFast ==
    HasDuplicate(models) =>
        /\ pc \in {"validate", "error"}
        /\ pc = "error" => err = "DuplicateModel"
        /\ i = 0
        /\ files = {}
        /\ model_linker = EmptyGraph
        /\ graph_file = <<>>
        /\ RenderCalls = {}

C1_Witness ==
    /\ pc = "error"
    /\ err = "DuplicateModel"
    /\ Len(models) = 2
    /\ models[1].project # models[2].project

(* C2: after a compile() run that completes without error the model graph, *)
(* also as persisted, has a node equal to the FQN of every enabled model   *)
(* of the pool, isolated models included.                                  *)
C2_EveryEnabledModelIsANode ==
    pc = "done" =>
        \A k \in 1..Len(models) :
            models[k].enabled =>
                /\ models[k].fqn \in model_linker.nodes
                /\ models[k].fqn \in graph_file[1].nodes

C2_Witness ==
    /\ pc = "done"
    /\ Len(models) = 2
    /\ models[1].enabled /\ models[2].enabled
    /\ model_linker.edges = {}
    /\ model_linker.nodes = {models[1].fqn, models[2].fqn}

(* C3: when rendering S calls ref(name) and exactly one model B of the     *)
(* pool has that name, the graph has an edge from B's output FQN to S's    *)
(* FQN and the call returns "<schema>"."<model_name(name)>".               *)
C3_RefAddsEdgeAndReturnsQuotedName ==
    \A e \in RenderCalls :
        (Len(e.args) = 1 /\ Cardinality(Candidates(models, e.args)) = 1) =>
            LET B == models[CHOOSE k \in Candidates(models, e.args) : TRUE]
            IN  /\ e.result.status = "Found"
                /\ <<OutputFqn(transform, B), e.source>> \in GraphOf(e.source).edges
                /\ e.ret = "\"dev\".\"" \o RenderedName(transform, e.args[1]) \o "\""

C3_Witness ==
    /\ pc = "done"
    /\ transform = "test"
    /\ \E e \in Resolved :
         /\ e.args = <<"b">>
         /\ e.source = <<"root", "a">>
         /\ e.ret = "\"dev\".\"test_b\""
         /\ <<<<"pkg", "test_b">>, <<"root", "a">>>> \in model_linker.edges

(* C4: after a compile() run that completes without error, for enabled     *)
(* models a and b and every naming transform, the model graph has an edge  *)
(* from the node registered for b (b's FQN) to the node registered for a   *)
(* if and only if rendering a invoked a ref that resolved to b.            *)
C4_EdgeJoinsRegisteredNodes ==
    pc = "done" =>
        \A j \in 1..Len(models), k \in 1..Len(models) :
            (models[j].enabled /\ models[k].enabled) =>
                (<<models[k].fqn, models[j].fqn>> \in model_linker.edges
                   <=> \E e \in Resolved :
                          /\ e.source = models[j].fqn
                          /\ e.result.found = <<models[k]>>)

(* C5: find_model_by_name(pool, name, package) considers exactly the       *)
(* models of the pool with that terminal name and, when a package is       *)
(* given, that owning project: none is the not-found error (namespace ANY  *)
(* when unqualified), one is returned, several are the ambiguity error.    *)
C5_FindModelByName ==
    \A e \in ref_log :
        LET c == Candidates(models, e.args)
            n == Cardinality(c)
        IN  /\ e.result.name = e.args[Len(e.args)]
            /\ e.result.package = (IF Len(e.args) = 1 THEN "ANY" ELSE e.args[1])
            /\ n = 0 => e.result.status = "NotFound" /\ e.result.found = <<>>
            /\ n = 1 => /\ e.result.status = "Found"
                        /\ e.result.found = <<models[CHOOSE k \in c : TRUE]>>
            /\ n > 1 => /\ e.result.status = "Ambiguous"
                        /\ Len(e.result.found) = n
                        /\ \A k \in c : \E x \in 1..n : e.result.found[x] = models[k]

C5_Witness ==
    /\ Len(models) = 2
    /\ models[1].name = "b" /\ models[1].project = "root"
    /\ models[2].name = "b" /\ models[2].project = "pkg"
    /\ \E e \in ref_log :
         /\ e.args = <<"pkg", "b">>
         /\ e.result.status = "Found"
         /\ e.result.found = <<models[2]>>
    /\ \E e \in ref_log :
         /\ e.args = <<"b">>
         /\ e.result.status = "Ambiguous"
    /\ \E e \in ref_log :
         /\ e.args = <<"a">>
         /\ e.result.status = "NotFound"
         /\ e.result.package = "ANY"

(* C6: after a compile() run that completes without error, no node of the  *)
(* persisted model graph belongs to a disabled model, neither its FQN nor  *)
(* its output FQN.                                                         *)
C6_NoNodeOfDisabledModel ==
    pc = "done" =>
        \A k \in 1..Len(models) :
            ~models[k].enabled =>
                /\ models[k].fqn \notin graph_file[1].nodes
                /\ OutputFqn(transform, models[k]) \notin graph_file[1].nodes

(* C6 as amended: the nodes of the persisted model graph are the FQNs of   *)
(* the enabled models and the output FQNs of the models, enabled or not,   *)
(* that a ref call of an enabled model resolved to; a disabled model that  *)
(* no ref resolved to has no node.                                         *)
C6_NodesAreEnabledModelsAndRefTargets ==
    pc = "done" =>
        /\ graph_file[1].nodes =
              {models[k].fqn : k \in {x \in 1..Len(models) : models[x].enabled}}
                \cup {OutputFqn(transform, e.result.found[1]) :
                        e \in Resolved \cap ModelCalls}
        /\ \A k \in 1..Len(models) :
              (/\ ~models[k].enabled
               /\ ~\E e \in Resolved : e.result.found = <<models[k]>>)
                 => /\ models[k].fqn \notin graph_file[1].nodes
                    /\ OutputFqn(transform, models[k]) \notin graph_file[1].nodes

C6_Witness ==
    /\ pc = "done"
    /\ Len(models) = 2
    /\ models[1].enabled
    /\ ~models[2].enabled
    /\ OutputFqn(transform, models[2]) \in graph_file[1].nodes
    /\ models[2].fqn \notin graph_file[1].nodes
    /\ transform = "test"

(* C7: a ref on the name of a model whose config has enabled=false fails   *)
(* with the not-found error, so no model depends on a disabled model.      *)
C7_RefToDisabledIsNotFound ==
    \A e \in RenderCalls :
        (\E k \in Candidates(models, e.args) : ~models[k].enabled)
            => e.result.status = "NotFound"

(* C7 as amended: a ref on the name of a model whose config has            *)
(* enabled=false resolves to that model, the pool searched being the whole *)
(* candidate pool: the call returns the reference string and the graph     *)
(* gains the edge from the disabled model's output FQN to the caller.      *)
C7_RefToDisabledResolves ==
    \A e \in RenderCalls :
        \A k \in Candidates(models, e.args) :
            ~models[k].enabled =>
                /\ e.result.status = "Found"
                /\ e.result.found = <<models[k]>>
                /\ e.ret = "\"dev\".\""
                             \o RenderedName(transform, models[k].name) \o "\""
                /\ <<OutputFqn(transform, models[k]), e.source>>
                      \in GraphOf(e.source).edges

C7_Witness ==
    /\ pc = "done"
    /\ \E e \in Resolved :
         /\ ~e.result.found[1].enabled
         /\ e.source = <<"root", "a">>
         /\ e.args = <<"pkg", "b">>

(* C8: in every compile() run the model graph file is written at most      *)
(* once, only after compile_model has returned for every model of the      *)
(* pool, and never in a run in which a model compilation raised.           *)
C8_GraphWrittenOnceAfterAllModels ==
    [][/\ graph_file' # graph_file =>
             /\ graph_file = <<>>
             /\ pc = "models"
             /\ i = Len(models)
             /\ err = "none"
             /\ graph_file' = <<model_linker>>
       /\ (pc = "models" /\ i' = i + 1 /\ err' # "none") =>
             /\ pc' = "error"
             /\ graph_file' = <<>>
       /\ pc = "error" => (pc' = "error" /\ graph_file' = graph_file)]_vars

C8_Witness ==
    /\ pc = "done"
    /\ Len(models) = 2
    /\ compiled_models = 2
    /\ Len(graph_file) = 1
    /\ graph_file[1].edges # {}

(* C9: models and analyses are compiled against two distinct graphs:       *)
(* compiling analyses never changes the model graph or the graph file,     *)
(* compiling models never touches the analysis graph, and neither the      *)
(* model graph nor the persisted graph has an analysis node.               *)
C9_TwoIndependentGraphs ==
    /\ [](/\ \A n \in model_linker.nodes : ~IsAnalysisFqn(n)
          /\ \A x \in 1..Len(graph_file) :
                \A n \in graph_file[x].nodes : ~IsAnalysisFqn(n))
    /\ [][/\ pc \in {"discover_analyses", "analyses"} =>
                /\ model_linker' = model_linker
                /\ graph_file' = graph_file
          /\ pc \in {"validate", "models"} =>
                /\ analysis_linker = EmptyGraph
                /\ analysis_linker' = EmptyGraph]_vars

C9_Witness ==
    /\ pc = "done"
    /\ analysis_linker.edges # {}
    /\ model_linker.edges # {}
    /\ graph_file = <<model_linker>>
    /\ \E n \in analysis_linker.nodes : IsAnalysisFqn(n)

(* C10: compile() ensures, as its first step and before discovering the    *)
(* dependency projects, that target-path and modules-path exist; a         *)
(* compile() started with either absent does not fail for that reason.     *)
C10_CompileEnsuresDirectories ==
    pc # "idle" =>
        /\ modulesExists
        /\ targetExists
        /\ err # "OSError"

----------------------------------------------------------------------------
(* Vocabulary of the later properties *)

\* what the k-th compile_model call of the model loop, and of the analysis
\* loop, read
ReadForModel(k) == input_log[k]
ReadForAnalysis(k) == input_log[Len(models) + k]

\* the relation R closed under composition, n times
RECURSIVE Closure(_, _)
Closure(R, n) ==
    IF n = 0 THEN R
    ELSE Closure(R \cup {<<pq[1][1], pq[2][2]>> :
                            pq \in {x \in R \X R : x[1][2] = x[2][1]}}, n - 1)

HasCycle(R) == \E e \in Closure(R, Cardinality(R)) : e[1] = e[2]

(* C11: compile() returns the pair (number of models of the pool for which *)
(* compile_model produced output, number of analyses for which it did); a  *)
(* model produces output exactly when it is enabled and model.compile      *)
(* returns a statement, so disabled and declined models are not counted.   *)
C11_ReturnedCounts ==
    pc = "done" =>
        /\ returned =
             <<Cardinality({k \in 1..Len(models) :
                              models[k].enabled /\ ReadForModel(k).stmt = "yes"}),
               Cardinality({k \in 1..Len(analyses) :
                              analyses[k].enabled
                                /\ ReadForAnalysis(k).stmt = "yes"})>>
        /\ \A k \in 1..Len(models) :
              (models[k].enabled /\ ReadForModel(k).stmt = "yes")
                 <=> OutputFqn(transform, models[k]) \in files

C11_Witness ==
    /\ pc = "done"
    /\ returned = <<1, 1>>
    /\ Len(models) = 2
    /\ models[1].enabled /\ models[2].enabled
    /\ ReadForModel(1).stmt = "no"
    /\ ReadForModel(2).stmt = "yes"
    /\ Len(analyses) = 1

(* C12: after add_node and dependency(node1, node2) calls that leave the   *)
(* graph acyclic, as_dependency_list() returns every node once, with node2 *)
(* before node1 for every dependency call made; on an empty graph it       *)
(* returns the empty sequence, on a graph with a cycle it fails with the   *)
(* cycle error.                                                            *)
C12_DependencyListOrdersDependencies ==
    pc = "listed" =>
        LET deps == {c \in linker_calls : c.op = "dependency"}
            R == {<<c.node2, c.node1>> : c \in deps}
            mentioned == {c.node1 : c \in linker_calls} \cup {c.node2 : c \in deps}
            order == dependency_list.order
            Pos(n) == CHOOSE k \in 1..Len(order) : order[k] = n
        IN  IF HasCycle(R)
            THEN dependency_list.status = "cycle"
            ELSE /\ dependency_list.status = "ok"
                 /\ Len(order) = Cardinality(mentioned)
                 /\ {order[k] : k \in 1..Len(order)} = mentioned
                 /\ \A c \in deps : Pos(c.node2) < Pos(c.node1)
                 /\ linker_calls = {} => order = <<>>

C12_Witness ==
    /\ pc = "listed"
    /\ dependency_list.status = "ok"
    /\ Len(dependency_list.order) = 3
    /\ [op |-> "dependency", node1 |-> <<"root", "a">>, node2 |-> <<"root", "b">>]
          \in linker_calls
    /\ [op |-> "dependency", node1 |-> <<"root", "b">>, node2 |-> <<"pkg", "a">>]
          \in linker_calls
    /\ dependency_list.order = <<<<"pkg", "a">>, <<"root", "b">>, <<"root", "a">>>>

(* C13: compile_model on a model whose config has enabled=false returns    *)
(* the no-output result and leaves the graph and the files unchanged: no   *)
(* node, no edge, no file, no count, no error.                             *)
C13_DisabledModelIsSkipped ==
    [][/\ (pc = "models" /\ i' = i + 1 /\ ~models[i'].enabled) =>
             /\ model_linker' = model_linker
             /\ analysis_linker' = analysis_linker
             /\ files' = files
             /\ targetExists' = targetExists
             /\ graph_file' = graph_file
             /\ ref_log' = ref_log
             /\ compiled_models' = compiled_models
             /\ err' = "none"
             /\ pc' = "models"
       /\ (pc = "analyses" /\ i' = i + 1 /\ ~analyses[i'].enabled) =>
             /\ model_linker' = model_linker
             /\ analysis_linker' = analysis_linker
             /\ files' = files
             /\ targetExists' = targetExists
             /\ graph_file' = graph_file
             /\ ref_log' = ref_log
             /\ compiled_analyses' = compiled_analyses
             /\ err' = "none"
             /\ pc' = "analyses"]_vars

C13_Witness ==
    /\ pc = "models"
    /\ i = 2
    /\ models[1].enabled
    /\ ~models[2].enabled
    /\ ReadForModel(2).stmt = "unasked"
    /\ model_linker = add_node(EmptyGraph, models[1].fqn)
    /\ files = {OutputFqn(transform, models[1])}
    /\ compiled_models = 1

\* the step in which compile_model answered for a model whose statement
\* model.compile declined
DeclinedStep ==
    /\ Len(input_log') = Len(input_log) + 1
    /\ input_log'[Len(input_log')].stmt = "no"

\* node and ref edges of the model of the k-th compile_model call are in g
KeptIn(g, k) ==
    /\ input_log[k].fqn \in g.nodes
    /\ \A e \in Resolved :
          e.source = input_log[k].fqn =>
             <<OutputFqn(transform, e.result.found[1]), e.source>> \in g.edges

(* C14: when an enabled model renders without error but model.compile      *)
(* returns no statement, no file is written and the result is no-output,   *)
(* yet the model's node and the edges of its ref calls remain in the graph *)
(* and, for a model, in the persisted graph.                               *)
C14_DeclinedModelStaysInGraph ==
    /\ [][DeclinedStep =>
             /\ files' = files
             /\ compiled_models' = compiled_models
             /\ compiled_analyses' = compiled_analyses
             /\ err' = "none"]_vars
    /\ [](\A k \in 1..Len(input_log) :
             input_log[k].stmt = "no" =>
                /\ KeptIn(GraphOf(input_log[k].fqn), k)
                /\ (pc = "done" /\ k <= Len(models)) => KeptIn(graph_file[1], k))

C14_Witness ==
    /\ pc = "done"
    /\ Len(models) = 2
    /\ ReadForModel(1).stmt = "no"
    /\ ReadForModel(1).template = <<<<"b">>>>
    /\ returned[1] = 0
    /\ files = {}
    /\ graph_file[1].nodes = {models[1].fqn, OutputFqn(transform, models[2])}
    /\ graph_file[1].edges = {<<OutputFqn(transform, models[2]), models[1].fqn>>}

\* the enabled models reference each other in a cycle: the relation
\* "rendering the second resolved a ref to the first" has a cycle
RefCycle ==
    HasCycle({<<e.result.found[1].fqn, e.source>> : e \in Resolved \cap ModelCalls})

(* C15: compile() never requests a topological ordering and never fails    *)
(* with a cycle error; when enabled models reference each other in a cycle *)
(* (a self-reference included) compile() still completes, writes their     *)
(* outputs and persists a graph containing the cycle, on which a later     *)
(* as_dependency_list fails with the cycle error.                          *)
C15_CyclicRefsPersistCycle ==
    /\ err # "cycle"
    /\ dependency_list = NotListed
    /\ (pc = "done" /\ RefCycle) =>
          /\ graph_file = <<model_linker>>
          /\ \A k \in 1..Len(models) :
                ReadForModel(k).stmt = "yes" =>
                   OutputFqn(transform, models[k]) \in files
          /\ HasCycle(graph_file[1].edges)
          /\ \A nbunch \in Orderings(graph_file[1].nodes),
                adj \in Orderings(graph_file[1].nodes) :
                as_dependency_list(graph_file[1], nbunch, adj).status = "cycle"

\* a graph node that stands for an analysis: its FQN or its output FQN
IsAnalysisNode(n) ==
    \E x \in AnalysesOf(RootProject) : n \in {x.fqn, OutputFqn(transform, x)}

(* C16: no ref call made while rendering a model or an analysis resolves   *)
(* to an analysis: every resolver searches the model pool, so a ref to a   *)
(* name that exists only as an analysis fails with the not-found error and *)
(* no graph has an edge whose predecessor is an analysis.                  *)
C16_RefNeverResolvesToAnalysis ==
    /\ \A e \in Resolved :
          /\ \E k \in 1..Len(models) : models[k] = e.result.found[1]
          /\ ~IsAnalysisNode(e.result.found[1].fqn)
    /\ \A e \in RenderCalls :
          Candidates(models, e.args) = {} => e.result.status = "NotFound"
    /\ \A g \in {model_linker, analysis_linker}
                  \cup {graph_file[x] : x \in 1..Len(graph_file)} :
          \A edge \in g.edges : ~IsAnalysisNode(edge[1])

C16_Witness ==
    /\ pc = "error"
    /\ err = "NotFound"
    /\ Len(models) = 1
    /\ models[1].name = "b"
    /\ Len(analyses) = 1
    /\ analyses[1].name = "a"
    /\ \E e \in RenderCalls :
         /\ e.source = analyses[1].fqn
         /\ e.args = <<"a">>
         /\ e.result.status = "NotFound"
    /\ analysis_linker = add_node(EmptyGraph, analyses[1].fqn)

(* C17: within a compile() run no ref call, unqualified or qualified, from *)
(* a model or an analysis, raises the ambiguity error: the pool every      *)
(* resolver searches has passed validate_models_unique, so each terminal   *)
(* name occurs at most once and the only reference failure is not-found.   *)
C17_NoAmbiguityAfterValidation ==
    /\ err # "Ambiguous"
    /\ \A e \in RenderCalls :
          /\ e.result.status \in {"Found", "NotFound"}
          /\ Cardinality(Candidates(models, e.args)) <= 1
    /\ pc \in {"models", "discover_analyses", "analyses", "done"} =>
          ~HasDuplicate(models)

C17_Witness ==
    /\ pc = "error"
    /\ err = "NotFound"
    /\ Len(models) = 2
    /\ models[1].project = "root" /\ models[2].project = "pkg"
    /\ \E e \in RenderCalls :
         /\ e.source = models[2].fqn
         /\ e.args = <<"root", models[2].name>>
         /\ e.result.status = "NotFound"
    /\ \E e \in RenderCalls :
         /\ e.source = models[1].fqn
         /\ e.args = <<models[2].name>>
         /\ e.result.status = "Found"

\* the state a compile loop starts from
FreshLoop ==
    [graph |-> EmptyGraph, log |-> {}, files |-> {}, compiled |-> 0,
     err |-> "none"]

(* C18: for a pool whose compile() run completes without error, the node   *)
(* set and the edge set of the final model graph and the returned counts   *)
(* are the same for every order of the models in the pool.                 *)
C18_GraphIndependentOfPoolOrder ==
    pc = "done" =>
        \A perm \in Orderings(1..Len(models)) :
            LET pool == [k \in 1..Len(models) |-> models[perm[k]]]
                reads == [k \in 1..Len(models) |-> ReadForModel(perm[k])]
                areads == [k \in 1..Len(analyses) |-> ReadForAnalysis(k)]
                m == compile_loop(transform, pool, pool, reads, 1, FreshLoop)
                a == compile_loop(transform, analyses, pool, areads, 1, FreshLoop)
            IN  /\ m.err = "none" /\ a.err = "none"
                /\ m.graph.nodes = model_linker.nodes
                /\ m.graph.edges = model_linker.edges
                /\ m.graph = graph_file[1]
                /\ <<m.compiled, a.compiled>> = returned

C18_Witness ==
    /\ pc = "done"
    /\ Len(models) = 2
    /\ models[1].enabled /\ models[2].enabled
    /\ ReadForModel(1).template = <<<<models[2].name>>>>
    /\ ReadForModel(2).template = <<>>
    /\ returned[1] = 2
    /\ {models[1].fqn, models[2].fqn} \subseteq model_linker.nodes
    /\ model_linker.edges = {<<OutputFqn(transform, models[2]), models[1].fqn>>}

====
